---------------------------- MODULE Spec2Model ----------------------------
(***************************************************************************)
(* ti154, src/types.rs: decoding of the typed fields of a TI 15.4-stack    *)
(* co-processor frame from a std::io::Cursor over a byte slice.            *)
(*                                                                         *)
(* Every `impl TryFrom<&mut Cursor<&[u8]>> for T` is a pure function of    *)
(* the buffer and the cursor position; it is modelled as an operator       *)
(* T_try_from(b, p) that returns the call's result together with the set   *)
(* of positions the cursor may be left at.  The state machine below lets a *)
(* caller chain such calls on one cursor and open fresh cursors over the   *)
(* same buffer.                                                            *)
(***************************************************************************)
EXTENDS Integers, Sequences, FiniteSets

VARIABLES
  buf,          \* the byte slice the cursor borrows (&[u8])
  buf0,         \* history: the slice as it was when the first cursor was made
  pos,          \* Cursor::position()
  phase,        \* where the call stack is: "idle", the two steps inside
                \* Address::try_from, or "panicked" (the thread unwound)
  callStart,    \* position at which the Address call in progress was entered
  address_mode, \* local `address_mode` of Address::try_from (types.rs:135)
  last,         \* history: the last call that returned: decoder, position at
                \* entry, position it left the cursor at, result
  sum,          \* history: sum of the declared widths of the calls made on
                \* this cursor while all of them succeeded, -1 after a failure
  cursors,      \* history: number of cursors created over the buffer
  abandoned     \* history: decoder whose NotEnoughBytes failure was the last
                \* call on the previous cursor ("none" otherwise)

vars == <<buf, buf0, pos, phase, callStart, address_mode, last, sum, cursors, abandoned>>

----------------------------------------------------------------------------
(* Bounds of the model *)

\* longest run of bytes that follows the first byte of a buffer
MaxTail == 9
\* cursors created over one buffer
MaxCursors == 2

----------------------------------------------------------------------------
(* Code tables: the FromPrimitive enums *)

\* enum Status (types.rs:10-68): <<wire code, enumerator>>
Status ==
  { <<0, "Success">>, <<24, "Unsupported">>, <<25, "BadState">>, <<26, "NoResources">>,
    <<37, "RPCCommandSubsystemError">>, <<38, "RPCCommandIdError">>,
    <<39, "RPCCommandLengthError">>, <<40, "RPCCommandUnsupportedType">>,
    <<97, "FHAPIError">>, <<98, "FHAPINotSupportedIE">>, <<99, "FHAPINotInAsync">>,
    <<100, "FHAPINoEntryInTheNeighbor">>, <<101, "FHAPIOutSlot">>,
    <<102, "FHAPIInvalidAddress">>, <<103, "FHAPIInvalidFormat">>,
    <<104, "FHAPINotSupportedPIB">>, <<105, "FHAPIReadOnlyPIB">>,
    <<106, "FHAPIInvalidParamPIB">>, <<107, "FHAPIInvalidFrameType">>,
    <<108, "FHAPIExpiredNode">>, <<219, "CounterError">>, <<220, "ImproperKeyType">>,
    <<221, "ImproperSecurityLevel">>, <<222, "UnsupportedLegacy">>,
    <<223, "UnsupportedSecurity">>, <<224, "BeaconLoss">>, <<225, "ChannelAccessFailure">>,
    <<226, "Denied">>, <<227, "DisableTRXFailure">>, <<228, "SecurityError">>,
    <<229, "FrameTooLong">>, <<230, "InvalidGTS">>, <<231, "InvalidHandle">>,
    <<232, "InvalidParameter">>, <<233, "NoAck">>, <<234, "NoBeacon">>, <<235, "NoData">>,
    <<236, "NoShortAddress">>, <<237, "OutOfCAP">>, <<238, "PANIdConflict">>,
    <<239, "Realignment">>, <<240, "TransactionExpired">>, <<241, "TransactionOverflow">>,
    <<242, "TxActive">>, <<243, "UnavailableKey">>, <<244, "UnsupportedAttribute">>,
    <<245, "InvalidAddress">>, <<246, "OnTimeTooLong">>, <<247, "PastTime">>,
    <<248, "TrackingOff">>, <<249, "InvalidIndex">>, <<250, "LimitReached">>,
    <<251, "ReadOnly">>, <<252, "ScanInProgress">>, <<253, "SuperframeOverlap">>,
    <<254, "AutoAckPendingAllOn">>, <<255, "AutoAckPendingAllOff">> }

\* enum AddressMode (types.rs:79-82): <<wire code, enumerator>>
AddressMode ==
  { <<2, "Addr16Bit">>, <<3, "Addr64Bit">> }

\* enum TxOption (types.rs:154-184): <<wire code, enumerator>>
TxOption ==
  { <<0, "NoAck">>, <<1, "Ack">>, <<2, "GTS">>, <<4, "Indirect">>, <<8, "PendBit">>,
    <<16, "NoRetrans">>, <<32, "NoCNF">>, <<64, "AltBE">>, <<128, "PwrChan">> }

\* enum SecurityLevel (types.rs:195-204): <<wire code, enumerator>>
SecurityLevel ==
  { <<0, "NoSecurity">>, <<1, "MIC32Auth">>, <<2, "MIC64Auth">>, <<3, "MIC128Auth">>,
    <<4, "AESEncryption">>, <<5, "AESEncryptionMIC32">>, <<6, "AESEncryptionMIC64">>,
    <<7, "AESEncryptionMIC128">> }

\* enum KeyIdMode (types.rs:215-220): <<wire code, enumerator>>
KeyIdMode ==
  { <<0, "NotUsed">>, <<1, "Key1ByteIndex">>, <<2, "Key4ByteIndex">>, <<3, "Key8ByteIndex">> }

\* enum WiSUNAsyncFrameType (types.rs:248-257): <<wire code, enumerator>>
WiSUNAsyncFrameType ==
  { <<0, "PANAdvert">>, <<1, "PANAdvertSOL">>, <<2, "PANConfig">>, <<3, "PANConfigSOL">>,
    <<4, "Data">>, <<5, "Ack">>, <<6, "EAPOL">>, <<255, "Invalid">> }

\* enum AssociationStatus (types.rs:268-272): <<wire code, enumerator>>
AssociationStatus ==
  { <<0, "Successful">>, <<1, "PANAtCapacity">>, <<2, "PANAccessDenied">> }

\* enum DisassociateReason (types.rs:283-287): <<wire code, enumerator>>
DisassociateReason ==
  { <<0, "Reserved">>, <<1, "CoorWishesDevLeave">>, <<2, "DevWishesLeave">> }

\* enum MACPIBAttributeId (types.rs:298-346): <<wire code, enumerator>>
MACPIBAttributeId ==
  { <<64, "AckWaitDuration">>, <<65, "AssociationPermit">>, <<66, "AutoRequest">>,
    <<67, "BattLifeExt">>, <<68, "BattLeftExtPeriods">>, <<69, "BeaconPayload">>,
    <<70, "BeaconPayloadLength">>, <<71, "BeaconOrder">>, <<72, "BeaconTxTime">>,
    <<73, "BSN">>, <<74, "CoordExtendedAddress">>, <<75, "CoordShortAddress">>,
    <<76, "DSN">>, <<77, "GTSPermit">>, <<78, "MaxCSMABackoffs">>, <<79, "MinBE">>,
    <<80, "PANId">>, <<81, "PromiscuousMode">>, <<82, "RxOnWhenIdle">>,
    <<83, "ShortAddress">>, <<84, "SuperframeOrder">>,
    <<85, "TransactionPersistenceTime">>, <<86, "AssociatedPANCoord">>, <<87, "MaxBE">>,
    <<88, "FrameTotalWaitTime">>, <<89, "MaxFrameRetries">>, <<90, "ResponseWaitTime">>,
    <<91, "SyncSymbolOffset">>, <<92, "TimestampSupported">>, <<93, "SecurityEnabled">>,
    <<94, "EBSN">>, <<95, "EBeaconOrder">>, <<96, "EBeaconOrderNBPAN">>,
    <<97, "OffsetTimeslot">>, <<98, "IncludeMPMIE">>, <<99, "PhyFSKPreambleLen">>,
    <<100, "PhyMRFSKSFD">>, <<224, "PhyTransmitPowerSigned">>, <<225, "LogicalChannel">>,
    <<226, "ExtendedAddress">>, <<227, "AltBE">>, <<228, "DeviceBeaconOrder">>,
    <<229, "RF4CEPowerSavings">>, <<230, "FrameVersionSupport">>, <<231, "ChannelPage">>,
    <<232, "PhyCurrentDescriptorId">>, <<233, "FCSType">> }

\* enum FHPIBAttributeId (types.rs:357-384): <<wire code, enumerator>>
FHPIBAttributeId ==
  { <<8192, "TrackParentEUI">>, <<8193, "BCInterval">>, <<8194, "UCExcludedChannels">>,
    <<8195, "BCExcludedChannels">>, <<8196, "UCDwellInterval">>,
    <<8197, "BCDwellInterval">>, <<8198, "ClockDrift">>, <<8199, "TimingAccuracy">>,
    <<8200, "UCChannelFunction">>, <<8201, "BCChannelFunction">>,
    <<8202, "UseParentBSIE">>, <<8203, "BrocastSchedId">>, <<8204, "UCFixedChannel">>,
    <<8205, "BCFixedChannel">>, <<8206, "PANSize">>, <<8207, "RoutingCost">>,
    <<8208, "RoutingMethod">>, <<8209, "EAPOLReady">>, <<8210, "FANTPSVersion">>,
    <<8211, "NetName">>, <<8212, "PANVersion">>, <<8213, "GTK0Hash">>,
    <<8214, "GTK1Hash">>, <<8215, "GTK2Hash">>, <<8216, "GTK3Hash">>,
    <<8217, "NeighborValidTime">> }

\* enum SecurityPIBAttributeId (types.rs:395-414): <<wire code, enumerator>>
SecurityPIBAttributeId ==
  { <<113, "KeyTable">>, <<129, "KeyTableEntries">>, <<130, "DeviceTableEntries">>,
    <<131, "SecurityLevelTableEntries">>, <<132, "FrameCounter">>,
    <<133, "AutoRequestSecurityLevel">>, <<134, "AutoRequestKeyIdMode">>,
    <<135, "AutoRequestKeySource">>, <<136, "AutoRequestKeyIndex">>,
    <<137, "DefaultKeySource">>, <<138, "PANCoordExtendedAddress">>,
    <<139, "PANCoordShortAddress">>, <<208, "KeyIdLookupEntry">>,
    <<209, "KeyIdDeviceEntry">>, <<210, "KeyIdUsageEntry">>, <<211, "KeyEntry">>,
    <<212, "DeviceEntry">>, <<213, "SecurityLevelEntry">> }

\* enum ScanType (types.rs:425-431): <<wire code, enumerator>>
ScanType ==
  { <<0, "EnergyDetect">>, <<1, "Active">>, <<2, "Passive">>, <<3, "Orphan">>,
    <<5, "Active2">> }

\* enum PhyId (types.rs:442-447): <<wire code, enumerator>>
PhyId ==
  { <<1, "STD_US_915_PHY_1">>, <<3, "STD_ETSI_863_PHY_3">>,
    <<4, "MRFSK_GENERIC_PHY_ID_BEGIN">>, <<6, "MRFSK_GENERIC_PHY_ID_END">> }

\* enum PermitJoin (types.rs:458-461): <<wire code, enumerator>>
PermitJoin ==
  { <<0, "AllBeaconRequests">>, <<1, "OnlyIfPermitJoinIsEnabled">> }

\* enum MPMScan (types.rs:472-475): <<wire code, enumerator>>
MPMScan ==
  { <<0, "Disabled">>, <<1, "Enabled">> }

\* enum MPMType (types.rs:486-489): <<wire code, enumerator>>
MPMType ==
  { <<1, "BPAN">>, <<2, "NBPAN">> }

\* enum WiSUNAsyncOperation (types.rs:500-503): <<wire code, enumerator>>
WiSUNAsyncOperation ==
  { <<0, "Start">>, <<1, "Stop">> }
----------------------------------------------------------------------------
(* Values a decode call produces: Result<T, Error>, or a panic *)

\* no call has returned yet
NoValue == [kind |-> "None", ty |-> "", name |-> "", bytes |-> <<>>, raw |-> -1]

\* Ok(enumerator `name` of enum `ty`)
OkEnum(ty, name) == [kind |-> "Ok", ty |-> ty, name |-> name, bytes |-> <<>>, raw |-> -1]

\* Ok(struct or variant holding a byte array)
OkBytes(ty, name, bytes) == [kind |-> "Ok", ty |-> ty, name |-> name, bytes |-> bytes, raw |-> -1]

\* Err(Error::<kind>(raw)): the error value holds its kind and the raw value only
Invalid(kind, raw) == [kind |-> "Err", ty |-> "Error", name |-> kind, bytes |-> <<>>, raw |-> raw]

\* Err(Error::NotEnoughBytes)
NotEnoughBytes == [kind |-> "Err", ty |-> "Error", name |-> "NotEnoughBytes", bytes |-> <<>>, raw |-> -1]

\* the call did not return: an assertion of the bytes crate failed
Panic == [kind |-> "Panic", ty |-> "", name |-> "", bytes |-> <<>>, raw |-> -1]

\* outcome of a call: its result and the positions the cursor may be left at
Return(r, q) == [res |-> r, pos |-> {q}]
Unwind(p) == [res |-> Panic, pos |-> {p}]

----------------------------------------------------------------------------
(* The cursor primitives the decoders call *)

\* Buf::remaining for Cursor: len.saturating_sub(position)
remaining(b, p) == IF p >= Len(b) THEN 0 ELSE Len(b) - p

\* Buf::get_u8: asserts remaining >= 1 (panics otherwise), reads one byte, advances by 1
get_u8(b, p) ==
  IF remaining(b, p) < 1
    THEN [panic |-> TRUE, v |-> 0, pos |-> p]
    ELSE [panic |-> FALSE, v |-> b[p + 1], pos |-> p + 1]

\* mutant: the two bytes taken most-significant first (get_u16)
get_u16_be(b, p) ==
  IF remaining(b, p) < 2
    THEN [panic |-> TRUE, v |-> 0, pos |-> p]
    ELSE [panic |-> FALSE, v |-> (b[p + 1] * 256 + b[p + 2]) % 65536, pos |-> p + 2]

\* Buf::get_u16_le: asserts remaining >= 2 (panics otherwise), reads lo then hi, advances by 2
get_u16_le(b, p) ==
  IF remaining(b, p) < 2
    THEN [panic |-> TRUE, v |-> 0, pos |-> p]
    ELSE [panic |-> FALSE, v |-> (b[p + 1] + 256 * b[p + 2]) % 65536, pos |-> p + 2]

\* mutant: the bytes are copied out but the position is not advanced
read_exact_peek(b, p, n) ==
  IF remaining(b, p) < n
    THEN [ok |-> FALSE, bytes |-> <<>>, pos |-> {p, Len(b)}]
    ELSE [ok |-> TRUE, bytes |-> SubSeq(b, p + 1, p + n), pos |-> {p}]

\* Read::read_exact for Cursor: n bytes or Err(UnexpectedEof).  On failure the
\* standard library leaves the position where it was or moves it to the end,
\* depending on its version: both are outcomes of the build.
read_exact(b, p, n) ==
  IF remaining(b, p) < n
    THEN [ok |-> FALSE, bytes |-> <<>>, pos |-> {p, Len(b)}]
    ELSE [ok |-> TRUE, bytes |-> SubSeq(b, p + 1, p + n), pos |-> {p + n}]

\* mutant: the array is left in wire order
reverse_skipped(a) == a

\* <[u8]>::reverse
reverse(a) == [i \in 1..Len(a) |-> a[Len(a) + 1 - i]]

\* FromPrimitive::from_u8 / from_u16 as derived: the enumerator whose
\* discriminant equals the value, or None
FromPrimitive(enum, v) ==
  IF \E e \in enum : e[1] = v
    THEN [some |-> TRUE, name |-> (CHOOSE e \in enum : e[1] = v)[2]]
    ELSE [some |-> FALSE, name |-> ""]

\* Option::ok_or
ok_or(opt, ty, err) == IF opt.some THEN OkEnum(ty, opt.name) ELSE err

----------------------------------------------------------------------------
(* The decoders *)

\* impl TryFrom<&mut Cursor<&[u8]>> for Status (types.rs:70-76)
Status_try_from(b, p) ==
  LET value == get_u8(b, p)
  IN  IF value.panic THEN Unwind(p)
      ELSE Return(ok_or(FromPrimitive(Status, value.v), "Status", Invalid("InvalidStatus", value.v)), value.pos)

\* mutant: an unknown mode byte falls back to the 16-bit mode
AddressMode_try_from_lenient(b, p) ==
  LET value == get_u8(b, p)
  IN  IF value.panic THEN Unwind(p)
      ELSE Return(ok_or(FromPrimitive(AddressMode, value.v), "AddressMode", OkEnum("AddressMode", "Addr16Bit")), value.pos)

\* impl TryFrom<&mut Cursor<&[u8]>> for AddressMode (types.rs:84-90)
AddressMode_try_from(b, p) ==
  LET value == get_u8(b, p)
  IN  IF value.panic THEN Unwind(p)
      ELSE Return(ok_or(FromPrimitive(AddressMode, value.v), "AddressMode", Invalid("InvalidAddressMode", value.v)), value.pos)

\* impl TryFrom<&mut Cursor<&[u8]>> for TxOption (types.rs:186-192)
TxOption_try_from(b, p) ==
  LET value == get_u8(b, p)
  IN  IF value.panic THEN Unwind(p)
      ELSE Return(ok_or(FromPrimitive(TxOption, value.v), "TxOption", Invalid("InvalidTxOption", value.v)), value.pos)

\* impl TryFrom<&mut Cursor<&[u8]>> for SecurityLevel (types.rs:206-212)
SecurityLevel_try_from(b, p) ==
  LET value == get_u8(b, p)
  IN  IF value.panic THEN Unwind(p)
      ELSE Return(ok_or(FromPrimitive(SecurityLevel, value.v), "SecurityLevel", Invalid("InvalidSecurityLevel", value.v)), value.pos)

\* impl TryFrom<&mut Cursor<&[u8]>> for KeyIdMode (types.rs:222-228)
KeyIdMode_try_from(b, p) ==
  LET value == get_u8(b, p)
  IN  IF value.panic THEN Unwind(p)
      ELSE Return(ok_or(FromPrimitive(KeyIdMode, value.v), "KeyIdMode", Invalid("InvalidKeyIdMode", value.v)), value.pos)

\* impl TryFrom<&mut Cursor<&[u8]>> for WiSUNAsyncFrameType (types.rs:259-265)
WiSUNAsyncFrameType_try_from(b, p) ==
  LET value == get_u8(b, p)
  IN  IF value.panic THEN Unwind(p)
      ELSE Return(ok_or(FromPrimitive(WiSUNAsyncFrameType, value.v), "WiSUNAsyncFrameType", Invalid("InvalidFrameType", value.v)), value.pos)

\* impl TryFrom<&mut Cursor<&[u8]>> for AssociationStatus (types.rs:274-280)
AssociationStatus_try_from(b, p) ==
  LET value == get_u8(b, p)
  IN  IF value.panic THEN Unwind(p)
      ELSE Return(ok_or(FromPrimitive(AssociationStatus, value.v), "AssociationStatus", Invalid("InvalidAssociationStatus", value.v)), value.pos)

\* impl TryFrom<&mut Cursor<&[u8]>> for DisassociateReason (types.rs:289-295)
DisassociateReason_try_from(b, p) ==
  LET value == get_u8(b, p)
  IN  IF value.panic THEN Unwind(p)
      ELSE Return(ok_or(FromPrimitive(DisassociateReason, value.v), "DisassociateReason", Invalid("InvalidDisassociationReason", value.v)), value.pos)

\* impl TryFrom<&mut Cursor<&[u8]>> for MACPIBAttributeId (types.rs:348-354)
MACPIBAttributeId_try_from(b, p) ==
  LET value == get_u8(b, p)
  IN  IF value.panic THEN Unwind(p)
      ELSE Return(ok_or(FromPrimitive(MACPIBAttributeId, value.v), "MACPIBAttributeId", Invalid("InvalidMACPIBAttributeId", value.v)), value.pos)

\* impl TryFrom<&mut Cursor<&[u8]>> for FHPIBAttributeId (types.rs:386-392)
FHPIBAttributeId_try_from(b, p) ==
  LET value == get_u16_le(b, p)
  IN  IF value.panic THEN Unwind(p)
      ELSE Return(ok_or(FromPrimitive(FHPIBAttributeId, value.v), "FHPIBAttributeId", Invalid("InvalidFHPIBAttributeId", value.v)), value.pos)

\* impl TryFrom<&mut Cursor<&[u8]>> for SecurityPIBAttributeId (types.rs:416-422)
SecurityPIBAttributeId_try_from(b, p) ==
  LET value == get_u8(b, p)
  IN  IF value.panic THEN Unwind(p)
      ELSE Return(ok_or(FromPrimitive(SecurityPIBAttributeId, value.v), "SecurityPIBAttributeId", Invalid("InvalidSecurityPIBAttributeId", value.v)), value.pos)

\* impl TryFrom<&mut Cursor<&[u8]>> for ScanType (types.rs:433-439)
ScanType_try_from(b, p) ==
  LET value == get_u8(b, p)
  IN  IF value.panic THEN Unwind(p)
      ELSE Return(ok_or(FromPrimitive(ScanType, value.v), "ScanType", Invalid("InvalidScanType", value.v)), value.pos)

\* impl TryFrom<&mut Cursor<&[u8]>> for PhyId (types.rs:449-455)
PhyId_try_from(b, p) ==
  LET value == get_u8(b, p)
  IN  IF value.panic THEN Unwind(p)
      ELSE Return(ok_or(FromPrimitive(PhyId, value.v), "PhyId", Invalid("InvalidPhyId", value.v)), value.pos)

\* impl TryFrom<&mut Cursor<&[u8]>> for PermitJoin (types.rs:463-469)
PermitJoin_try_from(b, p) ==
  LET value == get_u8(b, p)
  IN  IF value.panic THEN Unwind(p)
      ELSE Return(ok_or(FromPrimitive(PermitJoin, value.v), "PermitJoin", Invalid("InvalidPhyId", value.v)), value.pos)

\* impl TryFrom<&mut Cursor<&[u8]>> for MPMScan (types.rs:477-483)
MPMScan_try_from(b, p) ==
  LET value == get_u8(b, p)
  IN  IF value.panic THEN Unwind(p)
      ELSE Return(ok_or(FromPrimitive(MPMScan, value.v), "MPMScan", Invalid("InvalidPhyId", value.v)), value.pos)

\* impl TryFrom<&mut Cursor<&[u8]>> for MPMType (types.rs:491-497)
MPMType_try_from(b, p) ==
  LET value == get_u8(b, p)
  IN  IF value.panic THEN Unwind(p)
      ELSE Return(ok_or(FromPrimitive(MPMType, value.v), "MPMType", Invalid("InvalidPhyId", value.v)), value.pos)

\* impl TryFrom<&mut Cursor<&[u8]>> for WiSUNAsyncOperation (types.rs:505-511)
WiSUNAsyncOperation_try_from(b, p) ==
  LET value == get_u8(b, p)
  IN  IF value.panic THEN Unwind(p)
      ELSE Return(ok_or(FromPrimitive(WiSUNAsyncOperation, value.v), "WiSUNAsyncOperation", Invalid("InvalidPhyId", value.v)), value.pos)
\* impl TryFrom<&mut Cursor<&[u8]>> for ShortAddress (types.rs:97-107)
ShortAddress_try_from(b, p) ==
  LET address == read_exact(b, p, 2)
  IN  IF ~address.ok THEN [res |-> NotEnoughBytes, pos |-> address.pos]
      ELSE [res |-> OkBytes("ShortAddress", "", reverse(address.bytes)), pos |-> address.pos]

\* impl TryFrom<&mut Cursor<&[u8]>> for ExtendedAddress (types.rs:114-124)
ExtendedAddress_try_from(b, p) ==
  LET address == read_exact(b, p, 8)
  IN  IF ~address.ok THEN [res |-> NotEnoughBytes, pos |-> address.pos]
      ELSE [res |-> OkBytes("ExtendedAddress", "", reverse(address.bytes)), pos |-> address.pos]

\* impl TryFrom<&mut Cursor<&[u8]>> for KeySource (types.rs:235-245)
KeySource_try_from(b, p) ==
  LET key == read_exact(b, p, 8)
  IN  IF ~key.ok THEN [res |-> NotEnoughBytes, pos |-> key.pos]
      ELSE [res |-> OkBytes("KeySource", "", reverse(key.bytes)), pos |-> key.pos]

\* mutant: the short address taken from the head of the reversed slot
Addr16BitLeading(address) == OkBytes("Address", "Addr16Bit", <<address[1], address[2]>>)

\* Address::Addr16Bit(ShortAddress { address: [address[6], address[7]] }) (types.rs:143-145);
\* Rust indexes from 0, TLA+ from 1
Addr16Bit(address) == OkBytes("Address", "Addr16Bit", <<address[7], address[8]>>)

\* Address::Addr64Bit(ExtendedAddress { address }) (types.rs:146)
Addr64Bit(address) == OkBytes("Address", "Addr64Bit", address)

\* the decoders that are one step of the caller: every impl but Address
U8Codes ==
  { "Status", "AddressMode", "TxOption", "SecurityLevel", "KeyIdMode",
    "WiSUNAsyncFrameType", "AssociationStatus", "DisassociateReason",
    "MACPIBAttributeId", "SecurityPIBAttributeId", "ScanType", "PhyId",
    "PermitJoin", "MPMScan", "MPMType", "WiSUNAsyncOperation" }

CodeTables == U8Codes \cup {"FHPIBAttributeId"}

ByteFields == {"ShortAddress", "ExtendedAddress", "KeySource"}

\* T::try_from(cursor), resolved by the type T the caller asks for
try_from(T, b, p) ==
  CASE T = "Status" -> Status_try_from(b, p)
    [] T = "AddressMode" -> AddressMode_try_from(b, p)
    [] T = "ShortAddress" -> ShortAddress_try_from(b, p)
    [] T = "ExtendedAddress" -> ExtendedAddress_try_from(b, p)
    [] T = "TxOption" -> TxOption_try_from(b, p)
    [] T = "SecurityLevel" -> SecurityLevel_try_from(b, p)
    [] T = "KeyIdMode" -> KeyIdMode_try_from(b, p)
    [] T = "KeySource" -> KeySource_try_from(b, p)
    [] T = "WiSUNAsyncFrameType" -> WiSUNAsyncFrameType_try_from(b, p)
    [] T = "AssociationStatus" -> AssociationStatus_try_from(b, p)
    [] T = "DisassociateReason" -> DisassociateReason_try_from(b, p)
    [] T = "MACPIBAttributeId" -> MACPIBAttributeId_try_from(b, p)
    [] T = "FHPIBAttributeId" -> FHPIBAttributeId_try_from(b, p)
    [] T = "SecurityPIBAttributeId" -> SecurityPIBAttributeId_try_from(b, p)
    [] T = "ScanType" -> ScanType_try_from(b, p)
    [] T = "PhyId" -> PhyId_try_from(b, p)
    [] T = "PermitJoin" -> PermitJoin_try_from(b, p)
    [] T = "MPMScan" -> MPMScan_try_from(b, p)
    [] T = "MPMType" -> MPMType_try_from(b, p)
    [] T = "WiSUNAsyncOperation" -> WiSUNAsyncOperation_try_from(b, p)

----------------------------------------------------------------------------
(* Widths the interface declares for each field: what a successful call is  *)
(* said to consume.  Read only by the history variable sum and the claims.  *)

DeclaredWidth(T) ==
  CASE T \in U8Codes -> 1
    [] T \in {"FHPIBAttributeId", "ShortAddress"} -> 2
    [] T \in {"ExtendedAddress", "KeySource"} -> 8
    [] T = "Address" -> 9

----------------------------------------------------------------------------
(* Buffers the caller may hold *)

Byte == 0..255

\* n bytes a, a+s, a+2s, ... (mod 256)
Ramp(a, s, n) == [i \in 1..n |-> (a + (i - 1) * s) % 256]

\* first bytes of the longer buffers: the address modes and their neighbours
LeadBytes == {2, 3, 4}

\* two-byte buffers: the FHPIBAttributeId range 0x2000..0x2019 and values around it
FHLow == 0..26
FHEdgeLow == {0, 25, 255}
FHEdgeHigh == {0, 31, 33, 255}

Buffers ==
  {<<>>}
    \cup {<<v>> : v \in Byte}
    \cup {<<lo, 32>> : lo \in FHLow}
    \cup {<<lo, hi>> : lo \in FHEdgeLow, hi \in FHEdgeHigh}
    \cup {<<m>> \o Ramp(1, 1, n) : m \in LeadBytes, n \in 0..MaxTail}
    \cup {<<m>> \o Ramp(250, 1, MaxTail) : m \in LeadBytes}

----------------------------------------------------------------------------
(* The caller's state machine *)

Init ==
  /\ buf \in Buffers
  /\ buf0 = buf
  /\ pos = 0
  /\ phase = "idle"
  /\ callStart = 0
  /\ address_mode = "none"
  /\ last = [dec |-> "none", start |-> 0, end |-> 0, res |-> NoValue]
  /\ sum = 0
  /\ cursors = 1
  /\ abandoned = "none"

\* bookkeeping shared by every returning (or unwinding) call of decoder T that
\* was entered at position start, gave result r and left the cursor at q
Finish(T, start, r, q) ==
  /\ pos' = q
  /\ phase' = IF r.kind = "Panic" THEN "panicked" ELSE "idle"
  /\ last' = [dec |-> T, start |-> start, end |-> q, res |-> r]
  /\ sum' = IF r.kind = "Ok" /\ sum >= 0 THEN sum + DeclaredWidth(T) ELSE -1
  /\ callStart' = 0
  /\ address_mode' = "none"
  /\ UNCHANGED <<buf0, cursors, abandoned>>

\* the caller decodes a code-table value: T::try_from(&mut cursor).  The slice
\* is borrowed immutably: no call writes to it.
DecodeCode(T) ==
  /\ phase = "idle"
  /\ buf' = buf
  /\ LET out == try_from(T, buf, pos)
     IN  \E q \in out.pos : Finish(T, pos, out.res, q)

\* mutant: a failed read consumes the slice itself (as Read for &[u8] does to
\* its own view) instead of moving only the cursor
DecodeBytesDraining(T) ==
  /\ phase = "idle"
  /\ LET out == try_from(T, buf, pos)
     IN  /\ buf' = IF out.res.kind = "Ok" THEN buf ELSE SubSeq(buf, 1, pos)
         /\ \E q \in out.pos : Finish(T, pos, out.res, q)

\* the caller decodes a ShortAddress, an ExtendedAddress or a KeySource
DecodeBytes(T) ==
  /\ phase = "idle"
  /\ buf' = buf
  /\ LET out == try_from(T, buf, pos)
     IN  \E q \in out.pos : Finish(T, pos, out.res, q)

\* Address::try_from is entered (types.rs:134): the mode is not yet read
AddressCall ==
  /\ phase = "idle"
  /\ phase' = "mode_not_read"
  /\ callStart' = pos
  /\ UNCHANGED <<buf, buf0, pos, address_mode, last, sum, cursors, abandoned>>

\* mutant: the `?` is missing, an unknown mode is taken for the 16-bit one
AddressReadModeUnchecked ==
  /\ phase = "mode_not_read"
  /\ buf' = buf
  /\ LET out == AddressMode_try_from(buf, pos)
     IN  \E q \in out.pos :
           IF out.res.kind # "Panic"
             THEN /\ pos' = q
                  /\ phase' = "bytes_pending"
                  /\ address_mode' = IF out.res.kind = "Ok" THEN out.res.name ELSE "Addr16Bit"
                  /\ UNCHANGED <<buf0, callStart, last, sum, cursors, abandoned>>
             ELSE Finish("Address", callStart, out.res, q)

\* types.rs:135: AddressMode::try_from(Read::by_ref(cursor))?
AddressReadMode ==
  /\ phase = "mode_not_read"
  /\ buf' = buf
  /\ LET out == AddressMode_try_from(buf, pos)
     IN  \E q \in out.pos :
           IF out.res.kind = "Ok"
             THEN /\ pos' = q
                  /\ phase' = "bytes_pending"
                  /\ address_mode' = out.res.name
                  /\ UNCHANGED <<buf0, callStart, last, sum, cursors, abandoned>>
             ELSE Finish("Address", callStart, out.res, q)

\* types.rs:136-149: the 8-byte slot is read and reversed, then the variant is built
AddressReadBytes ==
  /\ phase = "bytes_pending"
  /\ buf' = buf
  /\ LET address == read_exact(buf, pos, 8)
     IN  \E q \in address.pos :
           IF ~address.ok
             THEN Finish("Address", callStart, NotEnoughBytes, q)
             ELSE Finish("Address", callStart,
                         IF address_mode = "Addr16Bit"
                           THEN Addr16Bit(reverse(address.bytes))
                           ELSE Addr64Bit(reverse(address.bytes)),
                         q)

\* the caller makes a fresh cursor over the same slice: Cursor::new(&data[..])
NewCursor ==
  /\ phase \in {"idle", "panicked"}
  /\ cursors < MaxCursors
  /\ cursors' = cursors + 1
  /\ pos' = 0
  /\ phase' = "idle"
  /\ sum' = 0
  /\ abandoned' = IF last.res = NotEnoughBytes THEN last.dec ELSE "none"
  /\ last' = [dec |-> "none", start |-> 0, end |-> 0, res |-> NoValue]
  /\ UNCHANGED <<buf, buf0, callStart, address_mode>>

Next ==
  \/ \E T \in CodeTables : DecodeCode(T)
  \/ \E T \in ByteFields : DecodeBytes(T)
  \/ AddressCall
  \/ AddressReadMode
  \/ AddressReadBytes
  \/ NewCursor

Spec == Init /\ [][Next]_vars

\* Address::try_from is straight-line code: once entered, each of its steps runs
FairSpec == Spec /\ WF_vars(AddressReadMode) /\ WF_vars(AddressReadBytes)

----------------------------------------------------------------------------
(* Vocabulary of the properties *)

\* the enum a code-table decoder looks its value up in
Enum(T) ==
  CASE T = "Status" -> Status
    [] T = "AddressMode" -> AddressMode
    [] T = "TxOption" -> TxOption
    [] T = "SecurityLevel" -> SecurityLevel
    [] T = "KeyIdMode" -> KeyIdMode
    [] T = "WiSUNAsyncFrameType" -> WiSUNAsyncFrameType
    [] T = "AssociationStatus" -> AssociationStatus
    [] T = "DisassociateReason" -> DisassociateReason
    [] T = "MACPIBAttributeId" -> MACPIBAttributeId
    [] T = "FHPIBAttributeId" -> FHPIBAttributeId
    [] T = "SecurityPIBAttributeId" -> SecurityPIBAttributeId
    [] T = "ScanType" -> ScanType
    [] T = "PhyId" -> PhyId
    [] T = "PermitJoin" -> PermitJoin
    [] T = "MPMScan" -> MPMScan
    [] T = "MPMType" -> MPMType
    [] T = "WiSUNAsyncOperation" -> WiSUNAsyncOperation

\* the error kind that belongs to a code family alone: the one named after it
OwnError(T) ==
  CASE T = "WiSUNAsyncFrameType" -> "InvalidFrameType"
    [] T = "DisassociateReason" -> "InvalidDisassociationReason"
    [] T = "Status" -> "InvalidStatus"
    [] T = "AddressMode" -> "InvalidAddressMode"
    [] T = "TxOption" -> "InvalidTxOption"
    [] T = "SecurityLevel" -> "InvalidSecurityLevel"
    [] T = "KeyIdMode" -> "InvalidKeyIdMode"
    [] T = "AssociationStatus" -> "InvalidAssociationStatus"
    [] T = "MACPIBAttributeId" -> "InvalidMACPIBAttributeId"
    [] T = "FHPIBAttributeId" -> "InvalidFHPIBAttributeId"
    [] T = "SecurityPIBAttributeId" -> "InvalidSecurityPIBAttributeId"
    [] T = "ScanType" -> "InvalidScanType"
    [] T = "PhyId" -> "InvalidPhyId"
    [] T = "PermitJoin" -> "InvalidPermitJoin"
    [] T = "MPMScan" -> "InvalidMPMScan"
    [] T = "MPMType" -> "InvalidMPMType"
    [] T = "WiSUNAsyncOperation" -> "InvalidWiSUNAsyncOperation"

\* bytes that remained when the last call was entered
Avail == Len(buf) - last.start

\* the i-th byte (from 1) that lay ahead when the last call was entered
Wire(i) == buf[last.start + i]

\* the wire code the last call had ahead of it, when it is a code-table call
\* with enough bytes: one byte, or lo + 256*hi
WireCode == IF last.dec = "FHPIBAttributeId" THEN Wire(1) + 256 * Wire(2) ELSE Wire(1)

\* a sequence back to front, written out
Mirror(a) == [i \in 1..Len(a) |-> a[Len(a) + 1 - i]]

----------------------------------------------------------------------------
(* C1 *)

\* C1: whenever a code-table or byte-field decoder is called with fewer bytes
\* remaining than its width (1, 2 or 8; none remaining included), the call
\* returns the error NotEnoughBytes.
C1_ShortReadIsNotEnoughBytes ==
  (last.dec \in CodeTables \cup ByteFields /\ Avail < DeclaredWidth(last.dec))
    => last.res = NotEnoughBytes

----------------------------------------------------------------------------
(* C2 *)

\* C2: a code-table decoder that reads a value outside its table returns the
\* Invalid* error of its own family carrying exactly the value read; it does
\* not panic and gives no enumerator.
C2_InvalidCodeIsOwnError ==
  (/\ last.dec \in CodeTables
   /\ Avail >= DeclaredWidth(last.dec)
   /\ \A e \in Enum(last.dec) : e[1] # WireCode)
    => last.res = Invalid(OwnError(last.dec), WireCode)

----------------------------------------------------------------------------
(* C3 *)

\* C3: a code-table decoder that has a value of its table ahead returns the
\* enumerator with that code and leaves the cursor exactly width (1 or 2)
\* bytes further; Status 0x00 is Success, Status 0x18 is Unsupported,
\* FHPIBAttributeId [0x00, 0x20] is TrackParentEUI.
C3_ValidCodeDecodes ==
  /\ (/\ last.dec \in CodeTables
      /\ Avail >= DeclaredWidth(last.dec)
      /\ \E e \in Enum(last.dec) : e[1] = WireCode)
       => /\ last.res.kind = "Ok"
          /\ last.res.ty = last.dec
          /\ <<WireCode, last.res.name>> \in Enum(last.dec)
          /\ last.end = last.start + DeclaredWidth(last.dec)
  /\ (last.dec = "Status" /\ Avail >= 1 /\ Wire(1) = 0)
       => last.res = OkEnum("Status", "Success")
  /\ (last.dec = "Status" /\ Avail >= 1 /\ Wire(1) = 24)
       => last.res = OkEnum("Status", "Unsupported")
  /\ (last.dec = "FHPIBAttributeId" /\ Avail >= 2 /\ Wire(1) = 0 /\ Wire(2) = 32)
       => last.res = OkEnum("FHPIBAttributeId", "TrackParentEUI")

\* an FHPIBAttributeId was decoded from [0x00, 0x20]
C3_Witness ==
  /\ last.dec = "FHPIBAttributeId"
  /\ last.start = 0
  /\ buf = <<0, 32>>
  /\ last.res.kind = "Ok"
  /\ last.end = 2

----------------------------------------------------------------------------
(* C4 *)

\* C4: an Address decoded from a mode byte and eight bytes b0..b7 is, for
\* mode 0x02, Addr16Bit of [b1, b0] and, for mode 0x03, Addr64Bit of
\* [b7, ..., b0]; [0x02, 0x01..0x08] gives the short address [0x02, 0x01].
C4_AddressVariants ==
  (last.dec = "Address" /\ Avail >= 9)
    => /\ Wire(1) = 2
            => last.res = OkBytes("Address", "Addr16Bit", <<Wire(3), Wire(2)>>)
       /\ Wire(1) = 3
            => last.res = OkBytes("Address", "Addr64Bit",
                 <<Wire(9), Wire(8), Wire(7), Wire(6), Wire(5), Wire(4), Wire(3), Wire(2)>>)
       /\ SubSeq(buf, last.start + 1, last.start + 9) = <<2, 1, 2, 3, 4, 5, 6, 7, 8>>
            => last.res.bytes = <<2, 1>>

\* the Address [0x02, 0x01..0x08] was decoded
C4_Witness ==
  /\ last.dec = "Address"
  /\ last.start = 0
  /\ Len(buf) >= 9
  /\ SubSeq(buf, 1, 9) = <<2, 1, 2, 3, 4, 5, 6, 7, 8>>
  /\ last.res.kind = "Ok"

----------------------------------------------------------------------------
(* C5 *)

\* the error kind the decoder of family T builds for a value outside its table
ErrorKind(T) ==
  CASE T \in {"PhyId", "PermitJoin", "MPMScan", "MPMType", "WiSUNAsyncOperation"} -> "InvalidPhyId"
    [] OTHER -> OwnError(T)

\* C5: an invalid-code failure of one code family never carries the error
\* kind of another family; in particular PermitJoin, MPMScan, MPMType and
\* WiSUNAsyncOperation failures are not reported as InvalidPhyId.
C5_ErrorKindsDistinct ==
  (last.dec \in CodeTables /\ last.res.kind = "Err" /\ last.res # NotEnoughBytes)
    => /\ \A T \in CodeTables \ {last.dec} : last.res.name # ErrorKind(T)
       /\ last.dec # "PhyId" => last.res.name # "InvalidPhyId"

----------------------------------------------------------------------------
(* C6 *)

\* C6: an Address call with a mode byte outside {0x02, 0x03} returns
\* InvalidAddressMode with that byte; with a valid mode byte followed by
\* fewer than 8 bytes it returns NotEnoughBytes (for the 16-bit mode too,
\* however many of the 8 are there); it returns an Address only when the
\* mode is valid and all 8 bytes are there, and a failure holds no address.
C6_AddressFailures ==
  last.dec = "Address"
    => /\ (Avail >= 1 /\ Wire(1) \notin {2, 3})
            => last.res = Invalid("InvalidAddressMode", Wire(1))
       /\ (Avail >= 1 /\ Wire(1) \in {2, 3} /\ Avail - 1 < 8)
            => last.res = NotEnoughBytes
       /\ last.res.kind = "Ok"
            => (Avail >= 9 /\ Wire(1) \in {2, 3} /\ last.res.ty = "Address")
       /\ last.res.kind # "Ok"
            => (last.res.bytes = <<>> /\ last.res.name \notin {"Addr16Bit", "Addr64Bit"})

\* a 16-bit Address with at least two, but not eight, bytes after the mode failed
C6_Witness ==
  /\ last.dec = "Address"
  /\ Avail >= 3
  /\ Avail < 9
  /\ Wire(1) = 2
  /\ last.res = NotEnoughBytes

----------------------------------------------------------------------------
(* C7 *)

\* C7: a ShortAddress (L = 2), ExtendedAddress or KeySource (L = 8) decoded
\* with at least L bytes ahead holds exactly those L bytes back to front
\* (element i is wire byte L-1-i), and reversing it gives the wire bytes.
C7_ByteFieldsReversed ==
  (last.dec \in ByteFields /\ Avail >= DeclaredWidth(last.dec))
    => LET L == DeclaredWidth(last.dec)
       IN  /\ last.res.kind = "Ok"
           /\ last.res.ty = last.dec
           /\ Len(last.res.bytes) = L
           /\ \A i \in 0..(L - 1) : last.res.bytes[i + 1] = Wire((L - 1 - i) + 1)
           /\ Mirror(last.res.bytes) = SubSeq(buf, last.start + 1, last.start + L)

\* a KeySource was decoded from eight distinct bytes behind a first byte
C7_Witness ==
  /\ last.dec = "KeySource"
  /\ last.start = 1
  /\ last.res.kind = "Ok"
  /\ last.res.bytes[1] # last.res.bytes[8]

----------------------------------------------------------------------------
(* C8 *)

\* C8: no call changes the slice: it always equals the original, and every
\* one-step decoder returns what it returns on the original slice at the
\* position it was entered at, whatever calls and cursors came before.
C8_BufferUntouched ==
  /\ buf = buf0
  /\ last.dec \in CodeTables \cup ByteFields
       => last.res = try_from(last.dec, buf0, last.start).res

\* after ExtendedAddress failed with NotEnoughBytes on a 1-byte slice, a fresh
\* cursor decoded that byte
C8_Witness ==
  /\ Len(buf0) = 1
  /\ cursors = 2
  /\ abandoned = "ExtendedAddress"
  /\ last.dec = "Status"
  /\ last.start = 0
  /\ last.res.kind = "Ok"

----------------------------------------------------------------------------
(* C9 *)

\* the decoded value v stands for the wire bytes w
Encodes(T, v, w) ==
  CASE T \in U8Codes -> <<w[1], v.name>> \in Enum(T)
    [] T = "FHPIBAttributeId" -> <<w[1] + 256 * w[2], v.name>> \in Enum(T)
    [] T \in ByteFields -> Mirror(v.bytes) = w
    [] T = "Address" ->
         IF v.name = "Addr64Bit"
           THEN w = <<3>> \o Mirror(v.bytes)
           ELSE w[1] = 2 /\ v.bytes = <<w[3], w[2]>>

\* C9: on one cursor every successful call leaves the position exactly its
\* declared width (1, 2, 8, or 9 for Address) past the position it was
\* entered at and returns the value of the bytes in between; while every
\* call has succeeded the position is the sum of the widths, and it is never
\* past the end of the slice.
C9_ChainedWidths ==
  /\ pos <= Len(buf)
  /\ (phase = "idle" /\ sum >= 0) => pos = sum
  /\ last.res.kind = "Ok"
       => /\ last.end = last.start + DeclaredWidth(last.dec)
          /\ Encodes(last.dec, last.res, SubSeq(buf, last.start + 1, last.end))

\* two or more calls that all succeeded consumed a 10-byte slice, the last an
\* ExtendedAddress entered at position 2
C9_Witness ==
  /\ phase = "idle"
  /\ sum = 10
  /\ pos = Len(buf)
  /\ last.dec = "ExtendedAddress"
  /\ last.start = 2
  /\ last.res.kind = "Ok"

----------------------------------------------------------------------------
(* C10 *)

\* the steps inside Address::try_from
InAddress == phase \in {"mode_not_read", "bytes_pending"}

\* C10: an Address call goes from "mode not yet read" to "mode read, bytes
\* pending" to its end and never back; no byte is read before the mode byte
\* and the slot is read only under a valid mode; a call that meets an invalid
\* mode byte ends in failure one byte past its entry; and every call entered
\* ends.
C10_AddressStateMachine ==
  /\ [][/\ phase' = "mode_not_read" => phase \in {"idle", "mode_not_read"}
        /\ phase' = "bytes_pending" => phase \in {"mode_not_read", "bytes_pending"}
        /\ phase = "bytes_pending" => phase' # "mode_not_read"
        /\ phase = "mode_not_read" => pos = callStart
        /\ phase = "bytes_pending"
             => (pos = callStart + 1 /\ address_mode \in {"Addr16Bit", "Addr64Bit"})]_vars
  /\ []((last.dec = "Address" /\ Avail >= 1 /\ Wire(1) \notin {2, 3})
          => (last.res.kind = "Err" /\ last.end = last.start + 1))
  /\ (InAddress ~> ~InAddress)

\* an Address call met the invalid mode byte 4 with bytes behind it and ended
C10_Witness ==
  /\ phase = "idle"
  /\ last.dec = "Address"
  /\ Avail >= 9
  /\ Wire(1) = 4
  /\ last.res = Invalid("InvalidAddressMode", 4)
  /\ last.end = last.start + 1

=============================================================================
